---------------------------- MODULE Spec2Model ----------------------------
(***************************************************************************)
(* A model of the Rust runtime of exonum                                   *)
(* (src/exonum/src/runtime/rust/mod.rs): the registries held by            *)
(* RustRuntimeInner behind a RefCell, the four RuntimeEnvironment          *)
(* operations, and the TransactionContext handed to service code, with     *)
(* its re-entrant dispatch_call.                                           *)
(*                                                                         *)
(* Service code (initialize, call) is opaque: while a frame of it is on    *)
(* the call stack it may write keys to the fork it was handed, issue       *)
(* dispatch_call, and return one of its outcomes.  A panic unwinds the     *)
(* whole call stack, drops every RefCell guard and leaves the registries   *)
(* as they were when it was raised; the runtime stays usable afterwards    *)
(* (a caller that aborts instead simply takes no further step).            *)
(***************************************************************************)
EXTENDS Integers, Sequences, FiniteSets, TLC

\* ------------------------------------------------------------ universes

\* Artifacts of this runtime's kind (ArtifactSpec::Rust) and of another kind.
RustArtifacts == {"A", "B"}
OtherArtifacts == {"J"}
Artifacts == RustArtifacts \cup OtherArtifacts

\* Box<dyn Service> values; a box is moved into the runtime at most once.
Services == {"s1", "s2"}
NoService == "none"

\* ServiceInstanceId values, method ids, payloads, storage views and keys.
Ids == {1, 2}
Methods == {"m0", "m1"}
Payloads == {"p1", "p2"}
Views == {"v1", "v2"}
\* The (method id, payload) pairs callers pass to execute and dispatch_call.
CallArgs == {<<"m0", "p1">>, <<"m1", "p2">>}
Keys == {"k1"}

\* Codes of the ExecutionError values service code returns, and causes of
\* the dispatch failures `call` reports.
ErrCodes == {"E1", "E2"}
Causes == {"c1"}

\* Longest chain of nested calls explored.
MaxDepth == 2

\* Callers of the two-caller specification.
Callers == {"t1", "t2"}

\* ------------------------------------------- the optimize-config command

\* The values execute falls back to.
MAX_OPEN_FILES == 256
MAX_TOTAL_WAL_SIZE == 1048576
DEFAULT_LOG_LEVEL == "warn"
MAX_LOG_FILE_SIZE == 10485760
KEEP_LOG_FILE_NUM == 10

\* Option<T>: None is the empty tuple, Some(x) the tuple of x.
None == <<>>
Some(x) == <<x>>

\* An Option::or that drops the receiver.
OrTakingTheOther(o, d) == d

\* Option::or
Or(o, d) == IF o = None THEN d ELSE o

\* The files of the model: the node configuration, an output file, and
\* the temporary files execute derives from the two.
Paths == {"node.toml", "out.toml", "node..tmp", "out..tmp"}

\* PathBuf::with_extension(".tmp"): the text after the last dot of the
\* file name is replaced by ".tmp", so the result has two dots more.
WithExtensionTmp(p) ==
    CASE p = "node.toml" -> "node..tmp"
      [] p = "out.toml"  -> "out..tmp"

\* A file is absent, holds a complete document, or holds the start of one.
Absent == [kind |-> "absent", doc |-> {}]
Partial == [kind |-> "partial", doc |-> {}]
ConfigFile(doc) == [kind |-> "file", doc |-> doc]

\* DbOptions: the Option fields and the plain ones.
OptionKeys == {"max_open_files", "max_total_wal_size", "log_verbosity",
               "max_log_file_size", "keep_log_file_num",
               "recycle_log_file_num"}
PlainKeys == {"create_if_missing", "compression_type"}

\* DbOptions::default()
DbOptionsDefault ==
    [max_open_files |-> None, create_if_missing |-> TRUE,
     compression_type |-> "none", max_total_wal_size |-> None,
     log_verbosity |-> None, max_log_file_size |-> None,
     keep_log_file_num |-> None, recycle_log_file_num |-> None]

\* NodeConfig: the database options and everything else.
NoConfig == [other |-> "-", database |-> DbOptionsDefault]
InitialConfigs ==
    {[other |-> "n1", database |-> DbOptionsDefault],
     [other |-> "n2",
      database |-> [DbOptionsDefault EXCEPT
                       !.max_open_files = Some(512),
                       !.compression_type = "lz4",
                       !.log_verbosity = Some("info"),
                       !.recycle_log_file_num = Some(1)]]}

\* save_config_file: the document is the set of key/value lines; a field
\* that is None has no line.
SaveConfigFile(cfg) ==
    {<<k, cfg.database[k][1]>> :
         k \in {j \in OptionKeys : cfg.database[j] # None}}
        \cup {<<k, cfg.database[k]>> : k \in PlainKeys}
        \cup {<<"other", cfg.other>>}

Get(doc, k) ==
    LET S == {e \in doc : e[1] = k}
    IN  IF S = {} THEN None ELSE Some((CHOOSE e \in S : TRUE)[2])

\* load_config_file: a key without a line is None.
LoadConfigFile(doc) ==
    [other |-> Get(doc, "other")[1],
     database |-> [k \in OptionKeys \cup PlainKeys |->
                      IF k \in OptionKeys THEN Get(doc, k)
                      ELSE Get(doc, k)[1]]]

\* The options of OptimizeConfig the model runs the command with: none
\* supplied, all supplied, and some supplied.
OptionSets ==
    {[max_open_files |-> None, max_total_wal_size |-> None,
      log_level |-> None, max_log_file_size |-> None,
      keep_log_file_num |-> None, recycle_log_files |-> None],
     [max_open_files |-> Some(64), max_total_wal_size |-> Some(2048),
      log_level |-> Some("debug"), max_log_file_size |-> Some(4096),
      keep_log_file_num |-> Some(3), recycle_log_files |-> Some(TRUE)],
     [max_open_files |-> Some(64), max_total_wal_size |-> None,
      log_level |-> None, max_log_file_size |-> Some(4096),
      keep_log_file_num |-> None, recycle_log_files |-> Some(FALSE)]}

\* The paths the model runs the command with: in place, with an output
\* file, on that output file, and on a file that has the name of the
\* temporary file.
PathArgs ==
    {<<"node.toml", None>>, <<"node.toml", Some("out.toml")>>,
     <<"out.toml", None>>, <<"out.toml", Some("out.toml")>>,
     <<"out..tmp", Some("out.toml")>>}

\* OptimizeConfig: the two paths and the options.
OptimizeConfig ==
    {[node_config_file |-> pa[1], output_file |-> pa[2], opts |-> s] :
         pa \in PathArgs, s \in OptionSets}

NoArgs == [node_config_file |-> "-", output_file |-> None,
           opts |-> CHOOSE s \in OptionSets : s.max_open_files = None]

\* self.recycle_log_files.map(|value| if value { 1 } else { 0 })
RecycleLogFileNum(o) ==
    IF o = None THEN None ELSE Some(IF o[1] THEN 1 ELSE 0)

\* The assignments execute makes to the loaded configuration.
Tune(cfg, self) ==
    [cfg EXCEPT !.database =
        [@ EXCEPT
            !.max_open_files =
                Or(self.opts.max_open_files, Some(MAX_OPEN_FILES)),
            !.max_total_wal_size =
                Or(self.opts.max_total_wal_size, Some(MAX_TOTAL_WAL_SIZE)),
            !.log_verbosity =
                Or(self.opts.log_level, Some(DEFAULT_LOG_LEVEL)),
            !.max_log_file_size =
                Or(self.opts.max_log_file_size, Some(MAX_LOG_FILE_SIZE)),
            !.keep_log_file_num =
                Or(self.opts.keep_log_file_num, Some(KEEP_LOG_FILE_NUM)),
            !.recycle_log_file_num =
                RecycleLogFileNum(self.opts.recycle_log_files)]]

\* self.output_file.unwrap_or(self.node_config_file.clone())
OutFile(self) ==
    IF self.output_file = None THEN self.node_config_file
    ELSE self.output_file[1]

TmpFile(self) == WithExtensionTmp(OutFile(self))

\* An existence test that never finds the temporary file.
TmpFileNeverExists(f, t) == FALSE

\* tmp_file.exists()
TmpFileExists(f, t) == f[t].kind # "absent"

\* A rename that leaves the source in place.
RenameKeepingSource(f, from, to) == [f EXCEPT ![to] = f[from]]

\* fs::rename(tmp_file, &out_file): the target is replaced in one step.
Rename(f, from, to) == [f EXCEPT ![to] = f[from], ![from] = Absent]

NoFiles == [p \in Paths |-> Absent]
NoCmd == [pc |-> "idle", self |-> NoArgs, cfg |-> NoConfig,
          pre |-> NoFiles, rerun |-> FALSE, res |-> "-"]

VARIABLES
    services,       \* RustRuntimeInner.services: artifact -> pending Service
    deployed,       \* RustRuntimeInner.deployed
    initialized,    \* RustRuntimeInner.initialized: instance id -> Service
    borrow,         \* the RefCell's borrow flag: -1 writing, n >= 0 readers
    stack,          \* frames of service code in progress, innermost last
    fork,           \* the keys written to each storage view
    last,           \* the top-level operation last started, and its result
    owner,          \* history: the artifact each box was registered for
    everRegistered, \* history: artifacts add_service was called for
    deployOk,       \* history: artifacts for which start_deploy returned Ok
    failedInit,     \* history: id -> the service whose initialize failed
    initOk,         \* history: ids for which init_service returned Ok
    callers,        \* two-caller specification: each caller's position
    fs,             \* optimize-config: path -> file
    cmd             \* optimize-config: the run in progress or last finished

vars == <<services, deployed, initialized, borrow, stack, fork, last, owner,
          everRegistered, deployOk, failedInit, initOk, callers, fs, cmd>>

registries == <<services, deployed, initialized>>
history == <<owner, everRegistered, deployOk, failedInit, initOk>>
cli == <<fs, cmd>>

\* -------------------------------------------------------------- results

R(kind) == [kind |-> kind, code |-> "-", cause |-> "-"]

\* ExecutionError::with_description(DISPATCH_ERROR, "Dispatch error: {cause}")
DISPATCH_ERROR == "DISPATCH_ERROR"
ExecutionError(code, cause) ==
    [kind |-> "ExecutionError", code |-> code, cause |-> cause]

\* What service code can return from `call`: Ok(Ok(())), Ok(Err(e)) with
\* e an ExecutionError of the service's own, or Err(cause).
CallOutcomes ==
    {[tag |-> "Ok", code |-> "-", cause |-> "-"]}
    \cup {[tag |-> "Err", code |-> c, cause |-> "-"] : c \in ErrCodes}
    \cup {[tag |-> "Fail", code |-> "-", cause |-> c] : c \in Causes}

\* What service code can return from `initialize`: Ok(()) or Err(e).
InitOutcomes == {o \in CallOutcomes : o.tag \in {"Ok", "Err"}}

IsRust(a) == a \in RustArtifacts

Top == stack[Len(stack)]
Idle == stack = <<>> /\ \A c \in Callers : callers[c].pc = "idle"

NoCall == [op |-> "none", art |-> "-", id |-> 0, res |-> R("-")]

Panic(where) == [kind |-> "Panic", code |-> "-", cause |-> where]
Running == R("Running")

Call(op, a, i, res) == [op |-> op, art |-> a, id |-> i, res |-> res]

NoCaller == [pc |-> "idle", art |-> "-", res |-> R("-"), pre |-> FALSE]

\* ------------------------------------------------------------ the state

\* A runtime on which nothing has been called yet.
NewRuntime ==
    /\ services = [a \in RustArtifacts |-> NoService]
    /\ deployed = {}
    /\ initialized = [i \in Ids |-> NoService]
    /\ borrow = 0
    /\ stack = <<>>
    /\ fork = [v \in Views |-> {}]
    /\ last = NoCall
    /\ owner = [s \in Services |-> "-"]
    /\ everRegistered = {}
    /\ deployOk = {}
    /\ failedInit = [i \in Ids |-> NoService]
    /\ initOk = {}
    /\ callers = [c \in Callers |-> NoCaller]

Init ==
    /\ NewRuntime
    /\ fs = NoFiles
    /\ cmd = NoCmd

\* ---------------------------------------------------------- add_service

\* The boxes not yet handed to add_service.  Boxes are interchangeable, so
\* the caller hands over the first of them.
Unused == {s \in Services : owner[s] = "-"}
NextBox == IF "s1" \in Unused THEN "s1" ELSE "s2"

\* RustRuntime::add_service: HashMap::insert, which replaces (and drops) a
\* service registered earlier for the same artifact.
AddService(a, s) ==
    /\ Idle
    /\ s \in Unused
    /\ s = NextBox
    /\ services' = [services EXCEPT ![a] = s]
    /\ owner' = [owner EXCEPT ![s] = a]
    /\ everRegistered' = everRegistered \cup {a}
    /\ last' = Call("add_service", a, 0, R("Ok"))
    /\ UNCHANGED <<deployed, initialized, borrow, stack, fork, deployOk,
                   failedInit, initOk, callers, cli>>

\* --------------------------------------------------------- start_deploy

\* start_deploy with the services check left out.
StartDeployResultNoServiceCheck(a) ==
    IF ~IsRust(a) THEN R("WrongArtifact")
    ELSE IF a \in deployed THEN R("AlreadyDeployed")
    ELSE R("Ok")

\* What start_deploy returns: the kind check, the services lookup, then the
\* insert into the deployed set, which reports an artifact already there.
StartDeployResult(a) ==
    IF ~IsRust(a) THEN R("WrongArtifact")
    ELSE IF services[a] = NoService THEN R("FailedToDeploy")
    ELSE IF a \in deployed THEN R("AlreadyDeployed")
    ELSE R("Ok")

\* start_deploy inserting into the deployed set before it looks for the
\* service.
StartDeployInsertUnchecked(a) ==
    IF IsRust(a) THEN deployed \cup {a} ELSE deployed

\* The deployed set after start_deploy: HashSet::insert runs on every call
\* that passes the two checks before it.
StartDeployInsert(a) ==
    IF StartDeployResult(a).kind \in {"Ok", "AlreadyDeployed"}
    THEN deployed \cup {a}
    ELSE deployed

StartDeploy(a) ==
    /\ Idle
    /\ deployed' = StartDeployInsert(a)
    /\ deployOk' = IF StartDeployResult(a).kind = "Ok"
                   THEN deployOk \cup {a} ELSE deployOk
    /\ last' = Call("start_deploy", a, 0, StartDeployResult(a))
    /\ UNCHANGED <<services, initialized, borrow, stack, fork, owner,
                   everRegistered, failedInit, initOk, callers, cli>>

\* -------------------------------------------------- check_deploy_status

\* check_deploy_status answering from the pending pool instead of the
\* deployed set.
CheckDeployStatusFromServices(a) ==
    IF ~IsRust(a) THEN R("WrongArtifact")
    ELSE IF services[a] # NoService THEN R("Deployed")
    ELSE R("FailedToDeploy")

\* check_deploy_status without the check of the artifact's kind.
CheckDeployStatusNoKindCheck(a) ==
    IF a \in deployed THEN R("Deployed") ELSE R("FailedToDeploy")

CheckDeployStatusResult(a) ==
    IF ~IsRust(a) THEN R("WrongArtifact")
    ELSE IF a \in deployed THEN R("Deployed")
    ELSE R("FailedToDeploy")

CheckDeployStatus(a) ==
    /\ Idle
    /\ last' = Call("check_deploy_status", a, 0, CheckDeployStatusResult(a))
    /\ UNCHANGED <<services, deployed, initialized, borrow, stack, fork,
                   history, callers, cli>>

\* ---------------------------------------------------------------- frames

\* A frame of service code: the service it runs in, what it was called
\* with, the view its TransactionContext reaches, and (history) the keys it
\* wrote and the keys written by the nested calls that returned to it.
Frame(fn, i, svc, m, p, v) ==
    [fn |-> fn, id |-> i, svc |-> svc, method |-> m, payload |-> p,
     view |-> v, wrote |-> {}, seen |-> {}]

\* --------------------------------------------------------- init_service

\* init_service looking at the instance id before the deployed set.
InitServiceCheckIdFirst(a, i) ==
    IF ~IsRust(a) THEN R("WrongArtifact")
    ELSE IF initialized[i] # NoService THEN R("ServiceIdExists")
    ELSE IF a \notin deployed THEN R("NotDeployed")
    ELSE IF services[a] = NoService THEN Panic("unwrap:125")
    ELSE R("Initialize")

\* init_service without the check of the instance id.
InitServiceCheckNoIdCheck(a, i) ==
    IF ~IsRust(a) THEN R("WrongArtifact")
    ELSE IF a \notin deployed THEN R("NotDeployed")
    ELSE IF services[a] = NoService THEN Panic("unwrap:125")
    ELSE R("Initialize")

\* init_service up to the call of initialize: the kind check, the deployed
\* check, the instance id check, and services.remove(&artifact).unwrap(),
\* which panics when the pending pool holds no service for the artifact.
\* "Initialize" stands for reaching the call of initialize.
InitServiceCheck(a, i) ==
    IF ~IsRust(a) THEN R("WrongArtifact")
    ELSE IF a \notin deployed THEN R("NotDeployed")
    ELSE IF initialized[i] # NoService THEN R("ServiceIdExists")
    ELSE IF services[a] = NoService THEN Panic("unwrap:125")
    ELSE R("Initialize")

\* The service is moved from the pending pool to the instance table before
\* initialize runs; the mutable borrow of the registries is held meanwhile.
InitService(a, i, p, v) ==
    /\ Idle
    /\ IF InitServiceCheck(a, i).kind = "Initialize"
       THEN /\ services' = [services EXCEPT ![a] = NoService]
            /\ initialized' = [initialized EXCEPT ![i] = services[a]]
            /\ borrow' = -1
            /\ stack' = <<Frame("initialize", i, services[a], "-", p, v)>>
            /\ last' = Call("init_service", a, i, Running)
       ELSE /\ last' = Call("init_service", a, i, InitServiceCheck(a, i))
            /\ UNCHANGED <<services, initialized, borrow, stack>>
    /\ UNCHANGED <<deployed, fork, history, callers, cli>>

\* init_service unbinding the instance when initialize fails.
AfterInitializeUnbind(i, o) ==
    IF o.tag = "Err" THEN [initialized EXCEPT ![i] = NoService]
    ELSE initialized

\* The instance table when initialize has returned o: the binding made
\* before the call stays, whatever o is.
AfterInitialize(i, o) == initialized

\* What init_service returns when initialize has returned o.
InitServiceResult(o) ==
    IF o.tag = "Ok" THEN R("Ok")
    ELSE [kind |-> "InitError::ExecutionError", code |-> o.code,
          cause |-> "-"]

InitializeReturn(o) ==
    /\ stack # <<>>
    /\ Top.fn = "initialize"
    /\ initialized' = AfterInitialize(Top.id, o)
    /\ borrow' = 0
    /\ stack' = <<>>
    /\ last' = [last EXCEPT !.res = InitServiceResult(o)]
    /\ failedInit' = IF o.tag = "Err"
                     THEN [failedInit EXCEPT ![Top.id] = Top.svc]
                     ELSE failedInit
    /\ initOk' = IF o.tag = "Ok" THEN initOk \cup {Top.id} ELSE initOk
    /\ UNCHANGED <<services, deployed, fork, owner, everRegistered,
                   deployOk, callers, cli>>

\* -------------------------------------------------------------- execute

\* execute up to the call of `call`: RefCell::borrow panics while the cell
\* is mutably borrowed, and get(..).unwrap() panics on an id that is not
\* bound.  "Call" stands for reaching the call of `call`.
ExecuteEntry(i) ==
    IF borrow < 0 THEN Panic("borrow:143")
    ELSE IF initialized[i] = NoService THEN Panic("unwrap:144")
    ELSE R("Call")

\* execute looking the instance up under the lowest bound id.
InstanceOfLowestId(i) ==
    IF initialized[1] # NoService THEN initialized[1] ELSE initialized[i]

\* inner.initialized.get(&dispatch.instance_id): the service execute calls.
Instance(i) == initialized[i]

\* execute wrapping every error of `call` with DISPATCH_ERROR.
ExecuteResultWrapAll(o) ==
    IF o.tag = "Fail" THEN ExecutionError(DISPATCH_ERROR, o.cause)
    ELSE IF o.tag = "Err" THEN ExecutionError(DISPATCH_ERROR, o.code)
    ELSE R("Ok")

\* What execute returns when `call` has returned o: a dispatch failure is
\* wrapped with DISPATCH_ERROR; the `?` hands on the Ok value of `call`,
\* the service's own Result, as it is.
ExecuteResult(o) ==
    IF o.tag = "Fail" THEN ExecutionError(DISPATCH_ERROR, o.cause)
    ELSE IF o.tag = "Err" THEN ExecutionError(o.code, "-")
    ELSE R("Ok")

Execute(i, m, p, v) ==
    /\ Idle
    /\ IF ExecuteEntry(i).kind = "Call"
       THEN /\ borrow' = borrow + 1
            /\ stack' = <<Frame("call", i, Instance(i), m, p, v)>>
            /\ last' = Call("execute", "-", i, Running)
       ELSE /\ last' = Call("execute", "-", i, ExecuteEntry(i))
            /\ UNCHANGED <<borrow, stack>>
    /\ UNCHANGED <<registries, fork, history, callers, cli>>

\* --------------------------------------------------- TransactionContext

\* dispatch_call handing the nested call a view of its own.
DispatchViewOther(f) == CHOOSE v \in Views : v # f.view

\* The view dispatch_call hands to execute: self.env_context, the
\* RuntimeContext the calling frame itself was given.
DispatchView(f) == f.view

\* TransactionContext::fork: service code writes a key to its view.
SvcWrite(k) ==
    /\ stack # <<>>
    /\ k \notin Top.wrote
    /\ fork' = [fork EXCEPT ![Top.view] = @ \cup {k}]
    /\ stack' = [stack EXCEPT ![Len(stack)].wrote = @ \cup {k}]
    /\ UNCHANGED <<registries, borrow, last, history, callers, cli>>

\* TransactionContext::dispatch_call: re-enters execute on the same
\* runtime.  A panic in execute unwinds every frame and drops its guard.
DispatchCall(i, m, p) ==
    /\ stack # <<>>
    /\ Len(stack) < MaxDepth
    /\ IF ExecuteEntry(i).kind = "Call"
       THEN /\ borrow' = borrow + 1
            /\ stack' = Append(stack, Frame("call", i, Instance(i), m, p,
                                            DispatchView(Top)))
            /\ last' = last
       ELSE /\ borrow' = 0
            /\ stack' = <<>>
            /\ last' = [last EXCEPT !.res = ExecuteEntry(i)]
    /\ UNCHANGED <<registries, fork, history, callers, cli>>

\* `call` returns o to execute, which returns to the embedding node or to
\* the frame whose dispatch_call it serves.
CallReturn(o) ==
    /\ stack # <<>>
    /\ Top.fn = "call"
    /\ borrow' = borrow - 1
    /\ IF Len(stack) = 1
       THEN /\ stack' = <<>>
            /\ last' = [last EXCEPT !.res = ExecuteResult(o)]
       ELSE /\ stack' = [SubSeq(stack, 1, Len(stack) - 1)
                            EXCEPT ![Len(stack) - 1] =
                                [@ EXCEPT !.seen = @ \cup Top.wrote
                                                     \cup Top.seen]]
            /\ last' = last
    /\ UNCHANGED <<registries, fork, history, callers, cli>>

\* ------------------------------------------------------------ behaviours

Next ==
    \/ \E a \in RustArtifacts, s \in Services : AddService(a, s)
    \/ \E a \in Artifacts : StartDeploy(a)
    \/ \E a \in Artifacts : CheckDeployStatus(a)
    \/ \E a \in Artifacts, i \in Ids, p \in Payloads, v \in Views :
          InitService(a, i, p, v)
    \/ \E o \in InitOutcomes : InitializeReturn(o)
    \/ \E i \in Ids, c \in CallArgs, v \in Views :
          Execute(i, c[1], c[2], v)
    \/ \E k \in Keys : SvcWrite(k)
    \/ \E i \in Ids, c \in CallArgs : DispatchCall(i, c[1], c[2])
    \/ \E o \in CallOutcomes : CallReturn(o)

Spec == Init /\ [][Next]_vars

\* ------------------------------------------- two callers of start_deploy

\* start_deploy statement by statement, for two callers that are inside it
\* at once.  The registries are guarded by a RefCell, not by a lock:
\* borrow_mut does not wait for the cell, it panics when the cell is
\* borrowed.  `pre` records that the caller entered for an artifact that
\* was registered and not yet deployed.
BoxOf(a) == IF a = "A" THEN "s1" ELSE "s2"

InitConc ==
    \E S \in SUBSET RustArtifacts :
        /\ services = [a \in RustArtifacts |->
                          IF a \in S THEN BoxOf(a) ELSE NoService]
        /\ owner = [s \in Services |->
                       IF \E a \in S : BoxOf(a) = s
                       THEN CHOOSE a \in S : BoxOf(a) = s ELSE "-"]
        /\ everRegistered = S
        /\ deployed = {}
        /\ initialized = [i \in Ids |-> NoService]
        /\ borrow = 0
        /\ stack = <<>>
        /\ fork = [v \in Views |-> {}]
        /\ last = NoCall
        /\ deployOk = {}
        /\ failedInit = [i \in Ids |-> NoService]
        /\ initOk = {}
        /\ callers = [c \in Callers |-> NoCaller]
        /\ fs = NoFiles
        /\ cmd = NoCmd

Done(c, res) == [callers EXCEPT ![c].pc = "done", ![c].res = res]

\* Lines 69-73: the kind check, on the caller's own argument.
Enter(c, a) ==
    /\ callers[c].pc = "idle"
    /\ callers' = [callers EXCEPT ![c] =
                      [pc |-> IF IsRust(a) THEN "l75" ELSE "done",
                       art |-> a,
                       res |-> IF IsRust(a) THEN Running
                               ELSE R("WrongArtifact"),
                       pre |-> /\ IsRust(a)
                               /\ services[a] # NoService
                               /\ a \notin deployed]]
    /\ UNCHANGED <<registries, borrow, stack, fork, last, history, cli>>

\* Line 75: self.inner.borrow_mut().
BorrowMut(c) ==
    /\ callers[c].pc = "l75"
    /\ IF borrow # 0
       THEN /\ callers' = Done(c, Panic("borrow_mut:75"))
            /\ borrow' = borrow
       ELSE /\ callers' = [callers EXCEPT ![c].pc = "l77"]
            /\ borrow' = -1
    /\ UNCHANGED <<registries, stack, fork, last, history, cli>>

\* Lines 77-79: services.contains_key; the guard is dropped on return.
ContainsKey(c) ==
    /\ callers[c].pc = "l77"
    /\ IF services[callers[c].art] = NoService
       THEN /\ callers' = Done(c, R("FailedToDeploy"))
            /\ borrow' = 0
       ELSE /\ callers' = [callers EXCEPT ![c].pc = "l81"]
            /\ borrow' = borrow
    /\ UNCHANGED <<registries, stack, fork, last, history, cli>>

\* Lines 81-84: deployed.insert and the return.
Insert(c) ==
    /\ callers[c].pc = "l81"
    /\ deployed' = deployed \cup {callers[c].art}
    /\ callers' = Done(c, IF callers[c].art \in deployed
                          THEN R("AlreadyDeployed") ELSE R("Ok"))
    /\ deployOk' = IF callers[c].art \in deployed THEN deployOk
                   ELSE deployOk \cup {callers[c].art}
    /\ borrow' = 0
    /\ UNCHANGED <<services, initialized, stack, fork, last, owner,
                   everRegistered, failedInit, initOk, cli>>

\* The caller has its result and may call again.
Leave(c) ==
    /\ callers[c].pc = "done"
    /\ callers' = [callers EXCEPT ![c] = NoCaller]
    /\ UNCHANGED <<registries, borrow, stack, fork, last, history, cli>>

NextConc ==
    \/ \E c \in Callers, a \in Artifacts : Enter(c, a)
    \/ \E c \in Callers : BorrowMut(c)
    \/ \E c \in Callers : ContainsKey(c)
    \/ \E c \in Callers : Insert(c)
    \/ \E c \in Callers : Leave(c)

SpecConc == InitConc /\ [][NextConc]_vars

\* ---------------------------------------- optimize-config, step by step

runtime == <<registries, borrow, stack, fork, last, history, callers>>

\* The files a run can find: a node configuration or an unreadable file at
\* node.toml, possibly a temporary file left by an earlier run, possibly a
\* configuration under the name of the other temporary file.
InitialFiles ==
    {[p \in Paths |->
         CASE p = "node.toml" -> n
           [] p = "out.toml"  -> Absent
           [] p = "node..tmp" -> t
           [] p = "out..tmp"  -> u] :
        n \in {ConfigFile(SaveConfigFile(c)) :
                   c \in {d \in InitialConfigs : d.other = "n2"}}
                 \cup {Partial},
        t \in {Absent, Partial},
        u \in {Absent} \cup
                 {ConfigFile(SaveConfigFile(c)) :
                      c \in {d \in InitialConfigs : d.other = "n1"}}}

InitCli ==
    /\ NewRuntime
    /\ fs \in InitialFiles
    /\ cmd = NoCmd

\* execute returns res.
Return(res) == [cmd EXCEPT !.pc = "idle", !.cfg = NoConfig, !.res = res]

\* The run repeats the one before it: that one succeeded, and this one has
\* the same options and reads and writes the file that one wrote.
Rerun(self) ==
    /\ cmd.res = "Ok"
    /\ self.opts = cmd.self.opts
    /\ self.node_config_file = OutFile(cmd.self)
    /\ OutFile(self) = OutFile(cmd.self)

\* Lines 92-110: the configuration is loaded and tuned in memory.  The load
\* fails if the file is missing or is not a complete document.
OptimizeLoad(self) ==
    /\ cmd.pc = "idle"
    /\ LET f == fs[self.node_config_file]
           started == [pc |-> "tuned", self |-> self, cfg |-> NoConfig,
                       pre |-> fs, rerun |-> Rerun(self), res |-> "-"]
       IN  cmd' =
             IF f.kind = "absent"
             THEN [started EXCEPT !.pc = "idle", !.res = "NotFound"]
             ELSE IF f.kind = "partial"
             THEN [started EXCEPT !.pc = "idle", !.res = "ParseError"]
             ELSE [started EXCEPT
                      !.cfg = Tune(LoadConfigFile(f.doc), self)]
    /\ UNCHANGED <<fs, runtime>>

\* Lines 114-121: execute bails out if the temporary file exists.
OptimizeCheckTmp ==
    /\ cmd.pc = "tuned"
    /\ cmd' = IF TmpFileExists(fs, TmpFile(cmd.self))
              THEN Return("TmpExists")
              ELSE [cmd EXCEPT !.pc = "save"]
    /\ UNCHANGED <<fs, runtime>>

\* Line 122: the temporary file is written; a fault leaves it partly
\* written.
OptimizeSave(how) ==
    /\ cmd.pc = "save"
    /\ LET tmp == TmpFile(cmd.self)
       IN  CASE how = "written" ->
                  /\ fs' = [fs EXCEPT
                               ![tmp] = ConfigFile(SaveConfigFile(cmd.cfg))]
                  /\ cmd' = [cmd EXCEPT !.pc = "rename"]
             [] how = "partly" ->
                  /\ fs' = [fs EXCEPT ![tmp] = Partial]
                  /\ cmd' = Return("IoFault")
    /\ UNCHANGED runtime

\* Lines 123-127: the temporary file is moved over the target.
OptimizeRename(fault) ==
    /\ cmd.pc = "rename"
    /\ IF fault
       THEN /\ fs' = fs
            /\ cmd' = Return("IoFault")
       ELSE /\ fs' = Rename(fs, TmpFile(cmd.self), OutFile(cmd.self))
            /\ cmd' = Return("Ok")
    /\ UNCHANGED runtime

NextCli ==
    \/ \E self \in OptimizeConfig : OptimizeLoad(self)
    \/ OptimizeCheckTmp
    \/ \E how \in {"written", "partly"} : OptimizeSave(how)
    \/ \E fault \in BOOLEAN : OptimizeRename(fault)

SpecCli == InitCli /\ [][NextCli]_vars

\* =============================================================== claims

\* C1 (as claimed): for every artifact a service was registered for, the
\* first start_deploy succeeds and every later one fails with
\* AlreadyDeployed, whatever operations come in between.
C1_FirstDeployOkLaterAlreadyDeployed ==
    [][\A a \in everRegistered :
          StartDeploy(a) =>
              last'.res.kind = (IF a \in deployOk THEN "AlreadyDeployed"
                                ELSE "Ok")]_vars

\* C2 (as claimed): execute on an instance id that no successful
\* init_service bound returns an ExecutionError: it does not panic, does
\* not return Ok and does not reach any service's call.
C2_ExecuteUnboundReturnsError ==
    (last.op = "execute" /\ last.id \notin initOk)
        => last.res.kind = "ExecutionError"

\* C3 (as claimed, for the part of init_service that precedes initialize):
\* init_service for a deployed artifact and an instance id that is not
\* bound never panics, however many instances of the artifact were bound
\* before.
C3_InitServiceNeverAborts ==
    [][\A a \in RustArtifacts \cap deployOk, i \in Ids,
          p \in Payloads, v \in Views :
          (initialized[i] = NoService /\ InitService(a, i, p, v))
              => last'.res.kind # "Panic"]_vars

\* C4: init_service for a deployed artifact with an instance id that is
\* already bound fails with ServiceIdExists and changes nothing: the
\* pending pool, the deployed set and the instance table are as before and
\* initialize is not called.
C4_BoundIdFailsServiceIdExists ==
    [][\A a \in RustArtifacts \cap deployOk, i \in Ids,
          p \in Payloads, v \in Views :
          (initialized[i] # NoService /\ InitService(a, i, p, v))
              => /\ last'.res.kind = "ServiceIdExists"
                 /\ UNCHANGED registries
                 /\ stack' = <<>>]_vars

\* C4's case: init_service(B, i) has failed with ServiceIdExists while i is
\* bound to the service of another deployed artifact and B's service is
\* still pending.
C4_Witness ==
    /\ last.op = "init_service"
    /\ last.res.kind = "ServiceIdExists"
    /\ initialized[last.id] # NoService
    /\ owner[initialized[last.id]] # last.art
    /\ {last.art, owner[initialized[last.id]]} \subseteq deployOk
    /\ services[last.art] # NoService

\* C5: check_deploy_status of an artifact of this runtime's kind fails with
\* FailedToDeploy as long as no start_deploy of it has succeeded and
\* returns Deployed ever after.
C5_StatusFollowsStartDeploy ==
    (last.op = "check_deploy_status" /\ IsRust(last.art))
        => last.res.kind = (IF last.art \in deployOk THEN "Deployed"
                            ELSE "FailedToDeploy")

\* C5's case: the status is Deployed after the artifact's service has been
\* bound to an instance.
C5_Witness ==
    /\ last.op = "check_deploy_status"
    /\ last.res.kind = "Deployed"
    /\ \E i \in Ids : /\ initialized[i] # NoService
                      /\ owner[initialized[i]] = last.art
    /\ services[last.art] = NoService

\* C6: init_service for an artifact (of this runtime's kind) of which no
\* start_deploy has succeeded fails with NotDeployed, whatever the instance
\* id and whether or not a service is registered; the registries are
\* unchanged and initialize is not called.
C6_UndeployedFailsNotDeployed ==
    [][\A a \in RustArtifacts \ deployOk, i \in Ids,
          p \in Payloads, v \in Views :
          InitService(a, i, p, v)
              => /\ last'.res.kind = "NotDeployed"
                 /\ UNCHANGED registries
                 /\ stack' = <<>>]_vars

\* C6's case: NotDeployed for a registered artifact and a bound instance id.
C6_Witness ==
    /\ last.op = "init_service"
    /\ last.res.kind = "NotDeployed"
    /\ services[last.art] # NoService
    /\ initialized[last.id] # NoService

\* C7: start_deploy of an artifact no service was registered for fails with
\* FailedToDeploy and does not deploy it: check_deploy_status still fails
\* with FailedToDeploy, and no unregistered artifact is ever deployed.
C7_UnregisteredFailsToDeploy ==
    /\ (last.op \in {"start_deploy", "check_deploy_status"}
        /\ IsRust(last.art) /\ last.art \notin everRegistered)
           => last.res.kind = "FailedToDeploy"
    /\ deployed \subseteq everRegistered

\* C7's case: start_deploy has failed for an unregistered artifact while
\* another artifact is deployed.
C7_Witness ==
    /\ last.op = "start_deploy"
    /\ IsRust(last.art)
    /\ last.art \notin everRegistered
    /\ last.res.kind = "FailedToDeploy"
    /\ deployed # {}

\* C8: every frame of a chain of nested calls runs in the service bound to
\* the instance id it was dispatched to and on the view of the outermost
\* call, and every key a returned nested call wrote is in the view of the
\* frame that dispatched it.
C8_NestedCallsShareTheView ==
    \A n \in 1..Len(stack) :
        /\ stack[n].view = stack[1].view
        /\ stack[n].seen \subseteq fork[stack[n].view]
        /\ stack[n].fn = "call"
               => /\ stack[n].svc # NoService
                  /\ stack[n].svc = initialized[stack[n].id]

\* C8's case: a nested call to another instance wrote a key the outer call
\* had not written, and has returned to it.
C8_Witness ==
    /\ Len(stack) = 1
    /\ stack[1].fn = "call"
    /\ stack[1].seen # {}
    /\ stack[1].wrote = {}

C10_FailedInitializeStaysBound ==
    [][/\ \A o \in InitOutcomes :
             (o.tag = "Err" /\ InitializeReturn(o))
                 => /\ last'.res = [kind |-> "InitError::ExecutionError",
                                    code |-> o.code, cause |-> "-"]
                    /\ initialized'[Top.id] = Top.svc
       /\ \A i \in Ids :
             failedInit[i] # NoService
                 => /\ initialized'[i] = failedInit[i]
                    /\ \A a \in RustArtifacts \cap deployOk,
                          p \in Payloads, v \in Views :
                          InitService(a, i, p, v)
                              => last'.res.kind = "ServiceIdExists"
                    /\ \A c \in CallArgs, v \in Views :
                          Execute(i, c[1], c[2], v)
                              => stack' = <<Frame("call", i, failedInit[i],
                                                  c[1], c[2], v)>>]_vars

\* C10's case: execute is running the call of a service whose initialize
\* failed.
C10_Witness ==
    /\ Len(stack) = 1
    /\ stack[1].fn = "call"
    /\ failedInit[stack[1].id] # NoService
    /\ stack[1].svc = failedInit[stack[1].id]

\* C11: the deployed set and the instance table only grow, and a bound id
\* keeps its service.  The deployed set changes only in a start_deploy that
\* returns Ok, by that one artifact; the instance table changes only in an
\* init_service that passes its checks, by that one id.  Every other step
\* (execute, dispatch_call, check_deploy_status, a call that returns an
\* error) leaves both as they are.
C11_RegistriesAppendOnly ==
    [][/\ deployed \subseteq deployed'
       /\ \A i \in Ids : initialized[i] # NoService
                            => initialized'[i] = initialized[i]
       /\ deployed' # deployed
             => \E a \in RustArtifacts :
                   /\ StartDeploy(a)
                   /\ last'.res.kind = "Ok"
                   /\ a \notin deployed
                   /\ deployed' = deployed \cup {a}
       /\ initialized' # initialized
             => \E a \in RustArtifacts, i \in Ids,
                   p \in Payloads, v \in Views :
                   /\ InitService(a, i, p, v)
                   /\ last'.res.kind = "Running"
                   /\ \A j \in Ids \ {i} : initialized'[j] = initialized[j]
       /\ last'.res.kind \in {"WrongArtifact", "FailedToDeploy",
                              "AlreadyDeployed", "NotDeployed",
                              "ServiceIdExists"}
             => UNCHANGED <<deployed, initialized>>]_vars

\* C11's case: two artifacts are deployed, an instance is bound, and a
\* start_deploy has just failed with AlreadyDeployed.
C11_Witness ==
    /\ Cardinality(deployed) = 2
    /\ \E i \in Ids : initialized[i] # NoService
    /\ last.op = "start_deploy"
    /\ last.res.kind = "AlreadyDeployed"

\* C12: start_deploy, check_deploy_status and init_service of an artifact
\* of another runtime kind fail with WrongArtifact in every state, whatever
\* the registries hold, and change nothing.
C12_WrongKindFailsWrongArtifact ==
    [][\A a \in OtherArtifacts :
          /\ (StartDeploy(a) \/ CheckDeployStatus(a))
                => /\ last'.res.kind = "WrongArtifact"
                   /\ UNCHANGED registries
          /\ \A i \in Ids, p \in Payloads, v \in Views :
                InitService(a, i, p, v)
                    => /\ last'.res.kind = "WrongArtifact"
                       /\ UNCHANGED registries
                       /\ stack' = <<>>]_vars

\* C12's case: init_service of a wrong-kind artifact has failed with
\* WrongArtifact for an instance id that is bound.
C12_Witness ==
    /\ last.op = "init_service"
    /\ last.art \in OtherArtifacts
    /\ last.res.kind = "WrongArtifact"
    /\ initialized[last.id] # NoService

C14_ExecuteCallsTheBoundService ==
    [][/\ \A a \in RustArtifacts, i \in Ids, p \in Payloads, v \in Views :
             (InitService(a, i, p, v) /\ stack' # <<>>)
                 => /\ owner[initialized'[i]] = a
                    /\ initialized'[i] = services[a]
       /\ \A i \in initOk, c \in CallArgs, v \in Views :
             Execute(i, c[1], c[2], v)
                 => /\ Len(stack') = 1
                    /\ stack'[1].fn = "call"
                    /\ stack'[1].svc = initialized[i]
                    /\ stack'[1].svc # NoService
                    /\ stack'[1].method = c[1]
                    /\ stack'[1].payload = c[2]
                    /\ stack'[1].view = v
       /\ \A o \in CallOutcomes :
             (o.tag = "Ok" /\ Len(stack) = 1 /\ CallReturn(o))
                 => last'.res.kind = "Ok"]_vars

\* C14's case: execute on the second instance id, bound by a successful
\* init_service, is running the call of the service bound to it.
C14_Witness ==
    /\ Len(stack) = 1
    /\ stack[1].fn = "call"
    /\ stack[1].id = 2
    /\ stack[1].id \in initOk
    /\ initialized[1] # NoService
    /\ stack[1].svc = initialized[2]

\* C19 (as claimed): a dispatch_call made from inside initialize to an
\* instance that is running enters its call and does not abort.
C19_DispatchFromInitialize ==
    [][\A i \in initOk, c \in CallArgs :
          (stack # <<>> /\ Top.fn = "initialize"
               /\ DispatchCall(i, c[1], c[2]))
              => /\ Len(stack') = 2
                 /\ last'.res.kind # "Panic"]_vars

\* C20: as long as no artifact was registered twice, every registered
\* service is in exactly one place, the pending pool under its artifact or
\* the instance table under one id; so an artifact backs at most one
\* instance, an artifact whose service has left the pool is deployed, and
\* there are no more instances than deployed artifacts.
RegisteredOnce ==
    \A s, t \in Services \ Unused : s # t => owner[s] # owner[t]

InPool(s) == {a \in RustArtifacts : services[a] = s}
InTable(s) == {i \in Ids : initialized[i] = s}

C20_ServicesConserved ==
    RegisteredOnce =>
        /\ \A s \in Services \ Unused :
              /\ Cardinality(InPool(s)) + Cardinality(InTable(s)) = 1
              /\ InPool(s) \subseteq {owner[s]}
        /\ \A a \in everRegistered : services[a] = NoService
                                        => a \in deployed
        /\ Cardinality({i \in Ids : initialized[i] # NoService})
               <= Cardinality(deployed)

\* C20's case: each artifact registered once, one service bound to an
\* instance and the other still pending.
C20_Witness ==
    /\ RegisteredOnce
    /\ Unused = {}
    /\ \E s \in Services : InTable(s) # {}
    /\ \E s \in Services : InPool(s) # {}

\* C15: a run of optimize-config changes the target only by the final
\* rename of a completely written temporary file.  A run that fails leaves
\* the target exactly as it was before the run; if the temporary file
\* existed before the run, the run returns an error and that file is as it
\* was; a failed write of the temporary file is an error.
C15_TargetChangesOnlyByRename ==
    [][LET out == OutFile(cmd'.self)
           tmp == TmpFile(cmd'.self)
       IN  /\ \A p \in Paths \ {tmp} :
                 fs'[p] # fs[p]
                     => /\ p = out
                        /\ cmd.pc = "rename"
                        /\ cmd'.res = "Ok"
                        /\ fs[tmp].kind = "file"
                        /\ fs'[out] = fs[tmp]
           /\ (cmd'.pc = "idle" /\ cmd'.res # "Ok")
                 => fs'[out] = cmd'.pre[out]
           /\ (cmd'.pc = "idle" /\ cmd'.pre[tmp].kind # "absent")
                 => /\ cmd'.res # "Ok"
                    /\ fs'[tmp] = cmd'.pre[tmp]
           /\ (cmd.pc = "save" /\ fs'[tmp].kind = "partial")
                 => cmd'.res = "IoFault"
           /\ cmd'.pre[cmd'.self.node_config_file].kind # "file"
                 => cmd'.res \in {"NotFound", "ParseError"}]_vars

\* C15's case: a run has failed because the temporary file of an existing
\* target was there before the run.
C15_Witness ==
    /\ cmd.pc = "idle"
    /\ cmd.res = "TmpExists"
    /\ cmd.pre[OutFile(cmd.self)].kind = "file"
    /\ cmd.pre[TmpFile(cmd.self)].kind = "partial"
    /\ cmd.self.output_file = None

\* C16: after a successful run the written configuration, loaded again,
\* has for each of max_open_files, max_total_wal_size, log_verbosity,
\* max_log_file_size and keep_log_file_num the value that was supplied,
\* and where none was supplied the tool's default (256 open files, 1 MiB
\* of write-ahead log, and so on).
C16_RoundTrip ==
    (cmd.pc = "idle" /\ cmd.res = "Ok")
        => LET f == fs[OutFile(cmd.self)]
               db == LoadConfigFile(f.doc).database
               o == cmd.self.opts
               is(got, given, default) ==
                   got = IF given # None THEN given ELSE <<default>>
           IN  /\ f.kind = "file"
               /\ is(db.max_open_files, o.max_open_files, MAX_OPEN_FILES)
               /\ is(db.max_total_wal_size, o.max_total_wal_size,
                     MAX_TOTAL_WAL_SIZE)
               /\ is(db.log_verbosity, o.log_level, DEFAULT_LOG_LEVEL)
               /\ is(db.max_log_file_size, o.max_log_file_size,
                     MAX_LOG_FILE_SIZE)
               /\ is(db.keep_log_file_num, o.keep_log_file_num,
                     KEEP_LOG_FILE_NUM)

\* C16's case: a run with some options supplied and some not has
\* succeeded on a configuration that had another max_open_files.
C16_Witness ==
    /\ cmd.pc = "idle"
    /\ cmd.res = "Ok"
    /\ cmd.self.opts.max_open_files = <<64>>
    /\ cmd.self.opts.max_total_wal_size = None
    /\ <<"max_open_files", 512>> \in cmd.pre[cmd.self.node_config_file].doc

\* C17: a run that repeats a successful run, with the same options on the
\* file that run wrote, fails only by a fault of the file system, and when
\* it succeeds the target holds exactly what the first run wrote.
C17_Idempotent ==
    (cmd.pc = "idle" /\ cmd.rerun)
        => /\ cmd.res \in {"Ok", "IoFault"}
           /\ cmd.res = "Ok"
                 => /\ fs[OutFile(cmd.self)].kind = "file"
                    /\ fs[OutFile(cmd.self)] = cmd.pre[OutFile(cmd.self)]

\* C17's case: the second of two runs in place has succeeded.
C17_Witness ==
    /\ cmd.pc = "idle"
    /\ cmd.rerun
    /\ cmd.res = "Ok"
    /\ cmd.self.node_config_file = "node.toml"
    /\ cmd.self.output_file = None

\* C18 (as claimed): after a successful run without the recycle_log_files
\* option, the written configuration has recycle_log_file_num = 1, as it
\* has after a run with recycle_log_files = true.
C18_RecycleDefaultsToTrue ==
    (cmd.pc = "idle" /\ cmd.res = "Ok"
         /\ cmd.self.opts.recycle_log_files = None)
        => LoadConfigFile(fs[OutFile(cmd.self)].doc)
               .database.recycle_log_file_num = <<1>>

=============================================================================
